---- MODULE Spec2Model ----
(***************************************************************************)
(* GlucoTwin: the GDM prediction service (src/app.py) and the data shaper  *)
(* (src/python-scripts/dataset-shaper.py) as state machines.               *)
(*                                                                         *)
(* JSON values, dataframe cells and dataframes are modelled as data:       *)
(*   a value/cell is a record [t, n, s]  (t: kind, n: number, s: string);  *)
(*   a dict or a one-row dataframe is a sequence of [k, v] records, in     *)
(*   insertion / column order.                                             *)
(***************************************************************************)
EXTENDS Integers, Sequences, FiniteSets, TLC

(***************************************************************************)
(* Bounds of the model.                                                    *)
(***************************************************************************)
\* most fields one patient-data object carries
MaxKeys == 2

(***************************************************************************)
(* Values.                                                                 *)
(***************************************************************************)
Num(k) == [t |-> "num", n |-> k, s |-> ""]
Str(x) == [t |-> "str", n |-> 0, s |-> x]
\* JSON null (Python None)
Null == [t |-> "null", n |-> 0, s |-> ""]
\* a JSON array or object: a Python list or dict, which is unhashable
Unhashable == [t |-> "list", n |-> 0, s |-> ""]
\* the float NaN pandas uses for "missing"
NaN == [t |-> "nan", n |-> 0, s |-> ""]
\* the scaler's transform applied to the number k, kept symbolic
Scaled(k) == [t |-> "scaled", n |-> k, s |-> ""]

Field(key, val) == [k |-> key, v |-> val]

RECURSIVE KeysOf(_)
KeysOf(d) == IF d = <<>> THEN <<>> ELSE <<Head(d).k>> \o KeysOf(Tail(d))

KeySet(d) == {d[i].k : i \in 1..Len(d)}

\* d[key] of a dict / the cell of column key
Get(d, key) == d[CHOOSE i \in 1..Len(d) : d[i].k = key].v

\* d[key] = val: replaces the value in place, or appends a new key at the end
Put(d, key, val) ==
    IF key \in KeySet(d)
    THEN [i \in 1..Len(d) |-> IF d[i].k = key THEN Field(key, val) ELSE d[i]]
    ELSE Append(d, Field(key, val))

(***************************************************************************)
(* GDMPredictor: the constants of __init__ and preprocess_input.           *)
(***************************************************************************)
feature_columns ==
    << "oneHourGlucose", "bpSystolic", "bmiBaseline", "fastingBloodGlucose",
       "weightKg", "pulseHeartRate", "hypertensiveDisorders", "typeOfTreatment",
       "twoHourGlucose", "nationality", "ageYears", "bpDiastolic", "height",
       "weightGainDuringPregnancy" >>

\* the keys of the frontend-to-model mapping, in the dict's order
mapping_keys ==
    << "oneHourGlucose", "bpSystolic", "bmiBaseline", "fastingBloodGlucose",
       "weightKg", "pulseHeartRate", "hypertensiveDisorders", "typeOfTreatment",
       "twoHourGlucose", "nationality", "ageYears", "bpDiastolic", "height",
       "weightGainDuringPregnancy" >>

\* mapping[frontend_key]: every key maps to itself
mapping(frontend_key) == frontend_key

numerical_columns ==
    << "oneHourGlucose", "bpSystolic", "bmiBaseline", "fastingBloodGlucose",
       "weightKg", "pulseHeartRate", "twoHourGlucose", "ageYears",
       "bpDiastolic", "height", "weightGainDuringPregnancy" >>

categorical_columns == << "hypertensiveDisorders", "typeOfTreatment", "nationality" >>

categorical_mappings(col) ==
    CASE col = "hypertensiveDisorders" ->
           ( "No" :> 0 @@ "no" :> 0 @@ "NO" :> 0 @@ "Nil" :> 0 @@
             "Yes" :> 1 @@ "yes" :> 1 @@ "Yes " :> 1 )
      [] col = "typeOfTreatment" ->
           ( "No Treatment" :> 0 @@
             "Metformin" :> 1 @@ "metformin" :> 1 @@ "metformin " :> 1 @@
             "Metformin " :> 1 @@ "MetFORMIN" :> 1 @@
             "750, 500, 750" :> 2 @@ "yes 1000BD" :> 2 @@ "yes 500 od" :> 2 @@
             "yes" :> 2 )
      [] col = "nationality" ->
           ( "UAE" :> 0 @@ "India" :> 1 @@ "Lebanon" :> 2 @@ "Sudan" :> 3 @@
             "United States" :> 4 @@ "Comoros" :> 5 @@ "Oman" :> 6 @@ "Iran" :> 7 @@
             "Philippenes" :> 8 @@ "United Kingdom" :> 9 @@ "Philippines" :> 8 @@
             "Pakistan" :> 10 @@ "Bangladesh" :> 11 @@ "Egypt" :> 12 @@
             "Jordan" :> 13 @@ "Syria" :> 14 @@ "Morocco" :> 15 @@ "Yemen" :> 16 @@
             "Somalia" :> 17 )

Range(q) == {q[i] : i \in 1..Len(q)}

(***************************************************************************)
(* pandas, as preprocess_input uses it on a one-row dataframe.             *)
(***************************************************************************)
\* float(s) of the strings the inputs are drawn from; any other string
\* does not parse
ParseFloat == ( "7" :> 7 @@ "120" :> 120 @@ "-3" :> (0 - 3) )

\* pd.to_numeric(cell, errors='coerce'): numbers stay, numeric strings are
\* parsed, everything else (other strings, '', None, lists) becomes NaN
to_numeric(v) ==
    CASE v.t = "num" -> v
      [] v.t = "str" -> IF v.s \in DOMAIN ParseFloat THEN Num(ParseFloat[v.s]) ELSE NaN
      [] OTHER -> NaN

\* Series.fillna(d) on one cell: NaN and None are filled
fillna(v, d) == IF v.t \in {"nan", "null"} THEN d ELSE v

\* Series.map(table) on one cell: a key of the table gives its code, any
\* other hashable value gives NaN
map_cell(table, v) ==
    IF v.t = "str" /\ v.s \in DOMAIN table THEN Num(table[v.s]) ELSE NaN

\* Series.map(dict) hashes every cell to look it up: a list or dict cell
\* raises TypeError (unhashable type)
map_raises(v) == v.t = "list"

\* df[cols]: the named columns, in the order asked for
RECURSIVE select_columns(_, _)
select_columns(df, cols) ==
    IF cols = <<>> THEN <<>>
    ELSE <<Field(Head(cols), Get(df, Head(cols)))>> \o select_columns(df, Tail(cols))

\* processed_data: the mapped keys patient_data holds, inserted in the
\* mapping's order (not in patient_data's order); unknown keys are dropped
RECURSIVE build_processed(_, _, _)
build_processed(keys, patient_data, acc) ==
    IF keys = <<>> THEN acc
    ELSE build_processed(Tail(keys), patient_data,
            IF Head(keys) \in KeySet(patient_data)
            THEN Put(acc, mapping(Head(keys)), Get(patient_data, Head(keys)))
            ELSE acc)

\* (mutant) the coercion without fillna(0)
coerce_cell_no_fill(v) == to_numeric(v)

\* pd.to_numeric(df[col], errors='coerce').fillna(0) on the one cell
coerce_cell(v) == fillna(to_numeric(v), Num(0))

\* the loop over numerical_columns: only the columns the dataframe has
coerce_numeric(df) ==
    [i \in 1..Len(df) |->
        IF df[i].k \in Range(numerical_columns)
        THEN Field(df[i].k, coerce_cell(df[i].v)) ELSE df[i]]

\* df[col].map(mapping).fillna(0) on the one cell
encode_cell(col, v) == fillna(map_cell(categorical_mappings(col), v), Num(0))

\* the loop over categorical_mappings: only the columns the dataframe has
encode_categorical(df) ==
    [i \in 1..Len(df) |->
        IF df[i].k \in Range(categorical_columns)
        THEN Field(df[i].k, encode_cell(df[i].k, df[i].v)) ELSE df[i]]

\* the categorical loop raises when a categorical cell cannot be hashed
categorical_raises(df) ==
    \E i \in 1..Len(df) :
        df[i].k \in Range(categorical_columns) /\ map_raises(df[i].v)

\* the loop that adds every feature column still missing, as 0, at the end
RECURSIVE add_missing(_, _)
add_missing(df, cols) ==
    IF cols = <<>> THEN df
    ELSE add_missing(IF Head(cols) \in KeySet(df) THEN df
                     ELSE Put(df, Head(cols), Num(0)),
                     Tail(cols))

\* (mutant) the re-ordering left out: the columns stay in insertion order
align_columns_unordered(df) == df

\* gdm_df = gdm_df[self.feature_columns]
align_columns(df) == select_columns(df, feature_columns)

(***************************************************************************)
(* The scaler artifact: None, or a fitted scaler that records how many     *)
(* features it was fitted on (nfeat) and, when it was fitted on a named    *)
(* dataframe, their names (feature_names_in_, of length nfeat).            *)
(***************************************************************************)
NoScaler == [loaded |-> FALSE, hasNames |-> FALSE, nfeat |-> 0]
FittedScaler(names, n) == [loaded |-> TRUE, hasNames |-> names, nfeat |-> n]

Scalers ==
    {NoScaler} \cup
    {FittedScaler(names, n) :
        names \in BOOLEAN, n \in {Len(numerical_columns), Len(feature_columns)}}

\* scaler.transform(df) raises when df has not the number of columns the
\* scaler was fitted on, or holds a cell that is not a number
transform_raises(sc, df) ==
    \/ Len(df) # sc.nfeat
    \/ \E i \in 1..Len(df) : df[i].v.t # "num"

\* scaler.transform(df): every cell standardised, the columns kept
transform(df) == [i \in 1..Len(df) |-> Field(df[i].k, Scaled(df[i].v.n))]

\* hasattr(scaler, 'feature_names_in_') and len(...) == len(feature_columns)
scaler_all_features(sc) == sc.hasNames /\ sc.nfeat = Len(feature_columns)

\* gdm_df_copy[numerical_columns] = transformed: the cells of the numerical
\* columns replaced, every other column and the column order untouched
assign_columns(df, part) ==
    [i \in 1..Len(df) |->
        IF df[i].k \in KeySet(part) THEN Field(df[i].k, Get(part, df[i].k)) ELSE df[i]]

\* the scaling step: the dataframe it leaves and the path it took
apply_scaling(sc, df) ==
    IF ~sc.loaded THEN [df |-> df, scaling |-> "no_scaler"]
    ELSE IF scaler_all_features(sc)
    THEN IF transform_raises(sc, df)
         THEN [df |-> df, scaling |-> "skipped"]
         ELSE [df |-> [i \in 1..Len(df) |-> Field(df[i].k, transform(df)[i].v)],
               scaling |-> "all"]
    ELSE LET numeric == select_columns(df, numerical_columns) IN
         IF transform_raises(sc, numeric)
         THEN [df |-> df, scaling |-> "skipped"]
         ELSE [df |-> assign_columns(df, transform(numeric)), scaling |-> "numeric"]

\* what preprocess_input returns: the scaled dataframe; unscaled keeps the
\* dataframe as it was before the scaling step
returned(aligned, out) ==
    [df |-> out.df, scaling |-> out.scaling, raised |-> FALSE, unscaled |-> aligned]

\* lines 150-173: the scaling step on the aligned dataframe, and the return
scale_and_return(sc, aligned) == returned(aligned, apply_scaling(sc, aligned))

\* lines 115-177, on the dataframe with its numeric columns coerced: an
\* exception of the categorical loop is raised again as ValueError
encode_align_scale(sc, df) ==
    IF categorical_raises(df)
    THEN [df |-> <<>>, scaling |-> "none", raised |-> TRUE, unscaled |-> <<>>]
    ELSE scale_and_return(sc,
            align_columns(add_missing(encode_categorical(df), feature_columns)))

\* GDMPredictor.preprocess_input: raises ValueError (raised), or returns the
\* dataframe
preprocess_input(sc, patient_data) ==
    encode_align_scale(sc,
        coerce_numeric(build_processed(mapping_keys, patient_data, <<>>)))

(***************************************************************************)
(* Inputs.                                                                 *)
(***************************************************************************)
\* a key the mapping does not know
UnknownKey == "patientId"

InputKeys == Range(feature_columns) \cup {UnknownKey}

\* the JSON values a field is drawn from: a number, numeric strings, other
\* strings (a table key, other casing, unseen, empty), null, an array
JsonValues ==
    { Num(7), Str("7"), Str("120"), Str("abc"), Str(""), Str("yes"), Str("YES"),
      Str("No"), Str("India"), Null, Unhashable }

\* what one patient-data object puts in its fields: <<a, b>> puts a in the
\* numeric (and unknown) fields and b in the categorical fields. Every value
\* everywhere, every value beside plain numbers, every value beside a table key
ValueProfiles ==
    {<<val, val>> : val \in JsonValues} \cup
    {<<Num(7), val>> : val \in JsonValues} \cup
    {<<val, Str("yes")>> : val \in JsonValues}

\* the sequences of up to n distinct keys: every subset in every order
RECURSIVE KeySeqs(_)
KeySeqs(n) ==
    IF n = 0 THEN {<<>>}
    ELSE LET shorter == KeySeqs(n - 1) IN
         shorter \cup
         UNION { { Append(ks, key) : key \in InputKeys \ Range(ks) } :
                 ks \in {x \in shorter : Len(x) = n - 1} }

Fill(ks, prof) ==
    [i \in 1..Len(ks) |->
        Field(ks[i], IF ks[i] \in Range(categorical_columns) THEN prof[2] ELSE prof[1])]

\* the non-empty patient-data objects of up to MaxKeys fields
PatientInputs ==
    { Fill(ks, prof) : ks \in KeySeqs(MaxKeys) \ {<<>>}, prof \in ValueProfiles }

NotRun == [df |-> <<>>, scaling |-> "not_run", raised |-> FALSE, unscaled |-> <<>>]

(***************************************************************************)
(* The model artifact: None, or the classifier train-model.py fits and     *)
(* pickles, with its global feature_importances_ (one score per feature).  *)
(***************************************************************************)
\* importance scores are drawn from 0..ImpLevels-1
ImpLevels == 2
\* probabilities are the multiples of 1/ProbDen
ProbDen == 6

NoModel == [loaded |-> FALSE, importances |-> <<>>]
LoadedModel(imp) == [loaded |-> TRUE, importances |-> imp]

\* the importance vectors a loaded model is drawn from: ties, zeros and
\* every order of the first features occur
ImportanceVectors ==
    { [i \in 1..Len(feature_columns) |-> (a * i + b) % ImpLevels] :
        a \in 0..(ImpLevels - 1), b \in 0..(ImpLevels - 1) }

\* what load_model leaves in self.model: None when the file is missing or
\* cannot be unpickled, the unpickled classifier otherwise
load_model == {NoModel} \cup {LoadedModel(imp) : imp \in ImportanceVectors}

\* what load_scaler leaves in self.scaler
load_scaler == Scalers

\* what the classifier answers for one dataframe: it raises, or gives the
\* probability k/ProbDen of class 1
ModelAnswers == {[k |-> 0, raises |-> TRUE]} \cup {[k |-> k, raises |-> FALSE] : k \in 0..ProbDen}

\* model.predict_proba(df)[0], as numerators over ProbDen
predict_proba(answer) == <<ProbDen - answer.k, answer.k>>

\* model.predict(df)[0] of the binary XGBClassifier: class 1 when its
\* probability is above one half
model_predict(answer) == IF 2 * answer.k > ProbDen THEN 1 ELSE 0

Max(a, b) == IF a >= b THEN a ELSE b

\* round(100 * (num / ProbDen), 2), in hundredths: to the nearest hundredth,
\* a tie to the even one
round2(num) ==
    LET n == 10000 * num
        q == n \div ProbDen
        r == n % ProbDen
    IN IF 2 * r < ProbDen THEN q
       ELSE IF 2 * r > ProbDen THEN q + 1
       ELSE IF q % 2 = 0 THEN q ELSE q + 1

\* one row [Features, Importance] put in its place in rows sorted by
\* Importance, descending, behind the rows of the same Importance
RECURSIVE insert_row(_, _)
insert_row(sorted, row) ==
    IF sorted = <<>> THEN <<row>>
    ELSE IF Head(sorted).Importance >= row.Importance
    THEN <<Head(sorted)>> \o insert_row(Tail(sorted), row)
    ELSE <<row>> \o sorted

\* sort_values(by="Importance", ascending=False) of the 14 rows (fewer than
\* 16 rows are sorted by insertion: rows that tie keep their order)
RECURSIVE sort_values(_, _)
sort_values(rows, sorted) ==
    IF rows = <<>> THEN sorted
    ELSE sort_values(Tail(rows), insert_row(sorted, Head(rows)))

\* GDMPredictor.sendFI: the importance dataframe, most important first
sendFI(m) ==
    sort_values([i \in 1..Len(feature_columns) |->
                    [Importance |-> m.importances[i], Features |-> feature_columns[i]]],
                <<>>)

\* importance["Features"].to_list()[:5]
top_factors(importance) == [i \in 1..5 |-> importance[i].Features]

NotLoadedMsg == "Model is not loaded, maybe model.pkl does not exist in your dir"

NoResult == [prediction |-> "", confidence |-> 0, gdm_probability |-> 0,
             factors |-> <<>>, model_version |-> ""]

\* (mutant) the factors ranked per prediction: reversed for class 0
build_result_local_factors(m, answer) ==
    [prediction |-> IF model_predict(answer) = 1 THEN "GDM Risk" ELSE "No GDM Risk",
     confidence |-> round2(Max(predict_proba(answer)[1], predict_proba(answer)[2])),
     gdm_probability |-> round2(predict_proba(answer)[2]),
     factors |-> IF model_predict(answer) = 1
                 THEN top_factors(sendFI(m))
                 ELSE [i \in 1..5 |-> sendFI(m)[Len(feature_columns) + 1 - i].Features],
     model_version |-> "1.0"]

\* (mutant) the confidence taken from the probability of class 1
build_result_positive_confidence(m, answer) ==
    [prediction |-> IF model_predict(answer) = 1 THEN "GDM Risk" ELSE "No GDM Risk",
     confidence |-> round2(predict_proba(answer)[2]),
     gdm_probability |-> round2(predict_proba(answer)[2]),
     factors |-> top_factors(sendFI(m)),
     model_version |-> "1.0"]

\* the result object of a prediction (lines 205-231)
build_result(m, answer) ==
    LET prediction == model_predict(answer)
        prediction_proba == predict_proba(answer)
    IN [prediction |-> IF prediction = 1 THEN "GDM Risk" ELSE "No GDM Risk",
        confidence |-> round2(Max(prediction_proba[1], prediction_proba[2])),
        gdm_probability |-> IF Len(prediction_proba) > 1
                            THEN round2(prediction_proba[2]) ELSE 0,
        factors |-> top_factors(sendFI(m)),
        model_version |-> "1.0"]

\* lines 197-237 of predict, given what preprocess_input did: every
\* exception is raised again as ValueError("Prediction failed: ...")
predict_with(m, processed, answer) ==
    IF processed.raised
    THEN [raised |-> TRUE, cause |-> "preprocess",
          exc |-> <<"Prediction failed: ", "Data preprocessing failed: ",
                    "unhashable type: 'list'">>,
          result |-> NoResult, pre |-> processed]
    ELSE IF answer.raises
    THEN [raised |-> TRUE, cause |-> "inference",
          exc |-> <<"Prediction failed: ", "inference error">>,
          result |-> NoResult, pre |-> processed]
    ELSE [raised |-> FALSE, cause |-> "none", exc |-> <<>>,
          result |-> build_result(m, answer), pre |-> processed]

\* (mutant) predict without the check of self.model: the call of
\* None.predict raises inside the try block, after the preprocessing
predict_unguarded(m, sc, patient_data, answer) ==
    predict_with(m, preprocess_input(sc, patient_data),
                 IF m.loaded THEN answer ELSE [k |-> 0, raises |-> TRUE])

\* GDMPredictor.predict: raises ValueError with a message (exc, the parts of
\* the message in order), or returns the result; cause names what raised
predict(m, sc, patient_data, answer) ==
    IF ~m.loaded
    THEN [raised |-> TRUE, cause |-> "not_loaded", exc |-> <<NotLoadedMsg>>,
          result |-> NoResult, pre |-> NotRun]
    ELSE predict_with(m, preprocess_input(sc, patient_data), answer)

(***************************************************************************)
(* POST /predict.                                                          *)
(***************************************************************************)
\* a patient-data object of each kind, for the requests
ServicePatients ==
    { << Field("oneHourGlucose", Num(7)), Field("hypertensiveDisorders", Str("yes")) >>,
      << Field("nationality", Str("India")), Field("ageYears", Str("abc")) >>,
      << Field(UnknownKey, Num(7)), Field("typeOfTreatment", Unhashable) >> }

\* the requests: no body and no JSON content type, a JSON content type with
\* an empty body, and the JSON documents null, {}, [1], {"other": 1},
\* {"patientData": null}, {"patientData": {}}, {"patientData": {...}}
BodyKinds == { "no_body", "empty_json_body", "null", "empty_object", "array",
               "object_without_pd", "object_pd_null", "object_pd_empty" }

Bodies ==
    {[kind |-> kd, pd |-> <<>>] : kd \in BodyKinds} \cup
    {[kind |-> "object_pd", pd |-> pd] : pd \in ServicePatients}

\* request.json: the parsed document, or an HTTP exception. A request that
\* is not JSON gives None before Flask 2.1 (legacy) and raises 415 since; a
\* JSON request whose body cannot be decoded raises 400 BadRequest
get_json_raises(body, legacy) ==
    \/ body.kind = "empty_json_body"
    \/ body.kind = "no_body" /\ ~legacy

\* not data
data_falsy(body) == body.kind \in {"no_body", "null", "empty_object"}

\* data.get raises AttributeError when the document is not an object
data_get_raises(body) == body.kind = "array"

\* not data.get('patientData', {})
patient_data_falsy(body) ==
    body.kind \in {"object_without_pd", "object_pd_null", "object_pd_empty"}

\* a response: the status, the error message (its parts, in order) or the
\* result, and for the record what raised and whether predictor.predict was
\* called. The measured apiResponseTime is left out: nothing reads it
Response(st, err, res, cause, called) ==
    [cause |-> cause, result |-> res, status |-> st, error |-> err,
     predictor_called |-> called]

NoResponse == Response(0, <<>>, NoResult, "none", FALSE)

\* (mutant) no handler for ValueError: the generic handler answers
answer_prediction_generic(out) ==
    IF out.raised
    THEN [pre |-> out.pre,
          resp |-> Response(500, <<"Internal server error occurred">>, NoResult,
                            out.cause, TRUE)]
    ELSE [pre |-> out.pre,
          resp |-> Response(200, <<>>, out.result, "none", TRUE)]

\* lines 265-283: the result as a 200, a ValueError of predict as a 400
\* that carries its message
answer_prediction(out) ==
    IF out.raised
    THEN [pre |-> out.pre,
          resp |-> Response(400, out.exc, NoResult, out.cause, TRUE)]
    ELSE [pre |-> out.pre,
          resp |-> Response(200, <<>>, out.result, "none", TRUE)]

\* predict_gdm: the response, and what preprocess_input returned for it
predict_gdm(m, sc, body, legacy, answer) ==
    IF get_json_raises(body, legacy)
    THEN [pre |-> NotRun,
          resp |-> Response(500, <<"Internal server error occurred">>, NoResult,
                            "http", FALSE)]
    ELSE IF data_falsy(body)
    THEN [pre |-> NotRun,
          resp |-> Response(400, <<"no prediction data provided">>, NoResult,
                            "none", FALSE)]
    ELSE IF data_get_raises(body)
    THEN [pre |-> NotRun,
          resp |-> Response(500, <<"Internal server error occurred">>, NoResult,
                            "attribute", FALSE)]
    ELSE IF patient_data_falsy(body)
    THEN [pre |-> NotRun,
          resp |-> Response(400, <<"no patient data provided">>, NoResult,
                            "none", FALSE)]
    ELSE answer_prediction(predict(m, sc, body.pd, answer))

NoRequest == [kind |-> "none", pd |-> <<>>]
NoLast == [prediction |-> "", factors |-> <<>>, patient |-> <<>>]

\* what one request brings: its body, the Flask at hand (legacy matters to a
\* request that is not JSON only) and what the classifier would answer
Requests ==
    {[body |-> b, legacy |-> FALSE, ans |-> [k |-> 0, raises |-> FALSE]] :
        b \in {x \in Bodies : x.kind # "object_pd"}} \cup
    {[body |-> [kind |-> "no_body", pd |-> <<>>], legacy |-> TRUE,
      ans |-> [k |-> 0, raises |-> FALSE]]} \cup
    {[body |-> b, legacy |-> FALSE, ans |-> a] :
        b \in {x \in Bodies : x.kind = "object_pd"}, a \in ModelAnswers}

VARIABLES
    model,      \* predictor.model
    scaler,     \* predictor.scaler
    request,    \* the body of the request handled last
    answer,     \* what the classifier answered for it
    resp,       \* the response to it
    pre,        \* what preprocess_input returned: for it, or for patient
    last,       \* the successful prediction before it: its patient data and factors
    patient,    \* the patient-data object preprocess_input is applied to
    workbook,   \* the spreadsheet process_gdm_data is run on
    shaped,     \* what process_gdm_data returned and the output file it left
    written     \* the columns of the CSV the successful run before it wrote

vars == <<model, scaler, request, answer, resp, pre, last, patient, workbook, shaped,
          written>>

\* no answer of the classifier reached the response
NoAnswer == [k |-> -1, raises |-> FALSE]

(***************************************************************************)
(* The data shaper: process_gdm_data.  A sheet is [columns, rows]: the     *)
(* column names in order and the rows in order, each row known by the      *)
(* sheet it comes from and its place there.                                *)
(***************************************************************************)
\* most data rows a sheet holds
MaxRows == 2

\* str.strip() of the column names the sheets are drawn from
Stripped == ( "BMI " :> "BMI" @@ " Age" :> "Age" @@ "Mode of Delivery " :> "Mode of Delivery" )
str_strip(name) == IF name \in DOMAIN Stripped THEN Stripped[name] ELSE name

\* str.contains('^Unnamed'): the names pandas gives to empty header cells
is_unnamed(name) == name \in {"Unnamed: 0", "Unnamed: 3"}

columns_to_remove ==
    << "socioeconomic status", "Mode of Delivery", "HbA1c Levels at Delivery:",
       "HbA1c Levels at Diagnosis (if using insulin):",
       "Gestational Age at Diagnosis of GDM (Months)", "Patients" >>

\* the header rows the sheets are drawn from; no two names of one header
\* are equal after stripping
SheetHeaders ==
    { << "Age", "BMI " >>,
      << "Patients", "BMI", "Unnamed: 3", " Age", "Type of treatment" >>,
      << "Unnamed: 0", "Weight", "Mode of Delivery ", "Age" >>,
      << "Weight" >> }

SheetRows(sheet, n) == [i \in 1..n |-> [row |-> i, sheet |-> sheet, GDM |-> -1]]

\* the workbooks: the file may be missing; the two sheets hold 0..MaxRows rows
Workbooks ==
    { [GDM |-> [rows |-> SheetRows("GDM", ng), columns |-> hg],
       exists |-> e,
       NGDM |-> [rows |-> SheetRows("NGDM", nn), columns |-> hn]] :
        e \in BOOLEAN, hg \in SheetHeaders, hn \in SheetHeaders,
        ng \in 0..MaxRows, nn \in 0..MaxRows }

NoWorkbook == [GDM |-> [rows |-> <<>>, columns |-> <<>>],
               exists |-> FALSE,
               NGDM |-> [rows |-> <<>>, columns |-> <<>>]]

\* SelectSeq with a predicate on the element
RECURSIVE Keep(_, _)
Keep(q, drop) ==
    IF q = <<>> THEN <<>>
    ELSE IF Head(q) \in drop THEN Keep(Tail(q), drop)
    ELSE <<Head(q)>> \o Keep(Tail(q), drop)

\* lines 41-46: the names stripped, the 'Unnamed' columns dropped
clean_columns(df) ==
    LET stripped == [i \in 1..Len(df.columns) |-> str_strip(df.columns[i])]
    IN [df EXCEPT !.columns = Keep(stripped, {c \in Range(stripped) : is_unnamed(c)})]

\* lines 66-77: every column whose name is in columns_to_remove dropped
remove_columns(df) ==
    [df EXCEPT !.columns = Keep(df.columns, Range(columns_to_remove))]

\* lines 81-82: NGDM gets the column 'Type of treatment' when it lacks it
add_treatment(df) ==
    IF "Type of treatment" \in Range(df.columns) THEN df
    ELSE [df EXCEPT !.columns = Append(df.columns, "Type of treatment")]

\* the orders list(set) may give the names of a set in
RECURSIVE Orders(_)
Orders(S) ==
    IF S = {} THEN {<<>>}
    ELSE UNION { { <<x>> \o rest : rest \in Orders(S \ {x}) } : x \in S }

\* lines 89-91: list(set(gdm.columns) & set(ngdm.columns)), in any order
common_columns(gdm, ngdm) == Orders(Range(gdm.columns) \cap Range(ngdm.columns))

\* lines 97-102: df[common_columns].copy() and the target column GDM, the
\* last column unless the sheets had a column GDM of their own
with_target(df, common, label) ==
    [rows |-> [i \in 1..Len(df.rows) |-> [df.rows[i] EXCEPT !.GDM = label]],
     columns |-> IF "GDM" \in Range(common) THEN common ELSE Append(common, "GDM")]

\* (mutant) the rows of the second dataframe first
concat_swapped(first, second) ==
    [rows |-> second.rows \o first.rows, columns |-> first.columns]

\* pd.concat([first, second], ignore_index=True) of two dataframes with the
\* same columns: the rows of the first, then the rows of the second
concat(first, second) ==
    [rows |-> first.rows \o second.rows, columns |-> first.columns]

\* lines 25-114: the combined dataframe, for one order of the common columns
combined_data(wb, common) ==
    concat(with_target(add_treatment(remove_columns(clean_columns(wb.NGDM))), common, 0),
           with_target(remove_columns(clean_columns(wb.GDM)), common, 1))

\* the orders the common columns of a workbook may come in
common_of(wb) ==
    common_columns(remove_columns(clean_columns(wb.GDM)),
                   add_treatment(remove_columns(clean_columns(wb.NGDM))))

\* what may fail inside the try block: reading the sheets, a print before
\* the CSV is written, opening the output file, writing it (a part of the
\* file is left), and a print after it is written (lines 118-128)
Faults == { "none", "read_excel", "print_before", "to_csv_open", "to_csv_write",
            "print_after" }

NoFile == [rows |-> <<>>, columns |-> <<>>, exists |-> FALSE, complete |-> FALSE]
CsvFile(df) == [rows |-> df.rows, columns |-> df.columns, exists |-> TRUE, complete |-> TRUE]
\* the file a failed write leaves: the header line, not the rows
PartialFile(df) == [rows |-> <<>>, columns |-> df.columns, exists |-> TRUE, complete |-> FALSE]

NotShaped == [returned |-> "not_run", output |-> NoFile]
\* no run has written a CSV
NoWritten == <<>>
Shaped(ret, file) == [returned |-> ret, output |-> file]

\* process_gdm_data: what it returns and the output file it leaves
process_gdm_data(wb, common, fault) ==
    IF ~wb.exists THEN Shaped("False", NoFile)
    ELSE IF fault \in {"read_excel", "print_before", "to_csv_open"}
    THEN Shaped("False", NoFile)
    ELSE IF fault = "to_csv_write"
    THEN Shaped("False", PartialFile(combined_data(wb, common)))
    ELSE IF fault = "print_after"
    THEN Shaped("False", CsvFile(combined_data(wb, common)))
    ELSE Shaped("True", CsvFile(combined_data(wb, common)))

(***************************************************************************)
(* The service: the predictor is constructed, then requests are handled.   *)
(***************************************************************************)
Init ==
    /\ model \in load_model
    /\ scaler \in load_scaler
    /\ request = NoRequest
    /\ answer = NoAnswer
    /\ resp = NoResponse
    /\ pre = NotRun
    /\ last = NoLast
    /\ patient = <<>>
    /\ workbook = NoWorkbook
    /\ shaped = NotShaped
    /\ written = NoWritten

PredictGdm ==
    \E rq \in Requests :
        \E out \in {predict_gdm(model, scaler, rq.body, rq.legacy, rq.ans)} :
        /\ request' = rq.body
        /\ answer' = IF out.resp.status = 200 THEN rq.ans ELSE NoAnswer
        /\ resp' = out.resp
        /\ pre' = out.pre
        /\ last' = IF resp.status = 200
                   THEN [prediction |-> resp.result.prediction,
                         factors |-> resp.result.factors, patient |-> request.pd]
                   ELSE last
        /\ UNCHANGED <<model, scaler, patient, workbook, shaped, written>>

Next == PredictGdm

Spec == Init /\ [][Next]_vars

(***************************************************************************)
(* preprocess_input alone, applied to every patient-data object.           *)
(***************************************************************************)
InitPre ==
    /\ model = NoModel
    /\ scaler \in load_scaler
    /\ request = NoRequest
    /\ answer = NoAnswer
    /\ resp = NoResponse
    /\ pre = NotRun
    /\ last = NoLast
    /\ patient \in PatientInputs
    /\ workbook = NoWorkbook
    /\ shaped = NotShaped
    /\ written = NoWritten

Preprocess ==
    /\ pre = NotRun
    /\ pre' = preprocess_input(scaler, patient)
    /\ UNCHANGED <<model, scaler, request, answer, resp, last, patient, workbook, shaped,
                   written>>

NextPre == Preprocess

SpecPre == InitPre /\ [][NextPre]_vars

(***************************************************************************)
(* The shaper script, run again and again on one workbook.                 *)
(***************************************************************************)
InitShaper ==
    /\ model = NoModel
    /\ scaler = NoScaler
    /\ request = NoRequest
    /\ answer = NoAnswer
    /\ resp = NoResponse
    /\ pre = NotRun
    /\ last = NoLast
    /\ patient = <<>>
    /\ workbook \in Workbooks
    /\ shaped = NotShaped
    /\ written = NoWritten

ProcessGdmData ==
    /\ \E fault \in Faults, common \in common_of(workbook) :
          shaped' = process_gdm_data(workbook, common, fault)
    /\ written' = IF shaped.returned = "True" THEN shaped.output.columns ELSE written
    /\ UNCHANGED <<model, scaler, request, answer, resp, pre, last, patient, workbook>>

NextShaper == ProcessGdmData

SpecShaper == InitShaper /\ [][NextShaper]_vars

(***************************************************************************)
(* The claims.                                                             *)
(***************************************************************************)
Returned == pre.scaling # "not_run" /\ ~pre.raised

\* C1: whenever preprocess_input returns for a non-empty patient-data
\* object (any subset of the canonical keys, any unknown keys, any key
\* order), the dataframe has exactly the 14 canonical columns in the order
\* of feature_columns, whichever path the scaling step took.
C1_CanonicalColumns ==
    Returned =>
        /\ KeysOf(pre.df) = feature_columns
        /\ pre.scaling \in {"all", "numeric", "skipped", "no_scaler"}

\* C1 witness: two fields given against the canonical order (the last
\* feature before the first), scaled on all 14 columns.
C1_Witness ==
    /\ Returned
    /\ pre.scaling = "all"
    /\ Len(patient) = 2
    /\ patient[1].k = "weightGainDuringPregnancy"
    /\ patient[2].k = "oneHourGlucose"

IsTableKey(col, v) == v.t = "str" /\ v.s \in DOMAIN categorical_mappings(col)

\* C5: every value of a categorical field that is not a key of the field's
\* lookup table (an unseen string, '', other casing, a non-string value) is
\* encoded as 0, the code of 'No', and preprocess_input does not raise.
C5_UnknownCategoryIsZero ==
    pre.scaling # "not_run" =>
        \A i \in 1..Len(patient) :
            (patient[i].k \in Range(categorical_columns)
                /\ ~IsTableKey(patient[i].k, patient[i].v))
            => /\ ~pre.raised
               /\ Get(pre.unscaled, patient[i].k) =
                      Num(categorical_mappings("hypertensiveDisorders")["No"])

IsParseable(v) == v.t = "num" \/ (v.t = "str" /\ v.s \in DOMAIN ParseFloat)
NumericValue(v) == IF v.t = "num" THEN v.n ELSE ParseFloat[v.s]

\* C6: before scaling, a numeric field that is missing or whose value does
\* not parse as a number ends as 0, a value that parses ends as its number,
\* and no numeric field makes preprocess_input raise (it raises only for a
\* categorical field that cannot be hashed).
C6_NumericFieldsCoerced ==
    pre.scaling # "not_run" =>
        /\ pre.raised =>
              \E i \in 1..Len(patient) :
                  patient[i].k \in Range(categorical_columns) /\ patient[i].v = Unhashable
        /\ ~pre.raised =>
              \A j \in 1..Len(numerical_columns) :
                  LET col == numerical_columns[j] IN
                  Get(pre.unscaled, col) =
                      IF col \in KeySet(patient) /\ IsParseable(Get(patient, col))
                      THEN Num(NumericValue(Get(patient, col)))
                      ELSE Num(0)

\* C6 witness: a numeric field that does not parse, beside a categorical
\* field; every other numeric field is missing.
C6_Witness ==
    /\ Returned
    /\ Len(patient) = 2
    /\ patient[1] = Field("ageYears", Str("abc"))
    /\ patient[2].k = "hypertensiveDisorders"
    /\ Get(pre.unscaled, "ageYears") = Num(0)
    /\ Get(pre.unscaled, "height") = Num(0)

ReachedPredictor == request.kind = "object_pd"

\* C2: with self.model None, every request that reaches the predictor is
\* answered with the 'not loaded' error (status 400), preprocess_input is
\* not run and no result is returned.
C2_NotLoadedAlwaysFails ==
    (~model.loaded /\ ReachedPredictor) =>
        /\ resp.status = 400
        /\ resp.error = <<NotLoadedMsg>>
        /\ resp.result = NoResult
        /\ pre = NotRun

\* C2 witness: a patient-data request answered by a predictor without model.
C2_Witness ==
    ~model.loaded /\ ReachedPredictor /\ resp.status = 400 /\ resp.predictor_called

\* C3: a request with no body or an empty body is rejected with 400 and
\* 'no prediction data provided', a request whose patientData is missing or
\* empty with 400 and 'no patient data provided'; the predictor is not called.
C3_EmptyRequestsRejected ==
    /\ request.kind \in {"no_body", "empty_json_body", "null", "empty_object"} =>
          /\ resp.status = 400
          /\ resp.error = <<"no prediction data provided">>
          /\ ~resp.predictor_called
    /\ request.kind \in {"object_without_pd", "object_pd_null", "object_pd_empty"} =>
          /\ resp.status = 400
          /\ resp.error = <<"no patient data provided">>
          /\ ~resp.predictor_called

\* the scaler raised inside preprocess_input and the scaling was skipped
ScalerRaised == pre.scaling = "skipped"

\* the text of the exception that made predict raise
ExceptionText(cause) ==
    CASE cause = "not_loaded" -> NotLoadedMsg
      [] cause = "preprocess" -> "unhashable type: 'list'"
      [] cause = "inference" -> "inference error"
      [] OTHER -> ""

Importance(name) ==
    model.importances[CHOOSE i \in 1..Len(feature_columns) : feature_columns[i] = name]

\* C7: two successful predictions of one loaded model return the same
\* factors: 5 feature names, in descending order of the model's global
\* importances, none less important than a feature left out.
C7_SameFactors ==
    resp.status = 200 =>
        LET fs == resp.result.factors IN
        /\ last # NoLast => fs = last.factors
        /\ Len(fs) = 5
        /\ \A i, j \in 1..5 : i < j => Importance(fs[i]) >= Importance(fs[j])
        /\ \A i, j \in 1..5 : i # j => fs[i] # fs[j]
        /\ \A name \in Range(feature_columns) \ Range(fs) :
              \A i \in 1..5 : Importance(fs[i]) >= Importance(name)

\* C7 witness: two successful predictions on different patient data with
\* different predicted classes.
C7_Witness ==
    /\ resp.status = 200
    /\ last # NoLast
    /\ last.patient # request.pd
    /\ last.prediction # resp.result.prediction

\* the probability (over ProbDen) of the class model.predict returned
PredictedProba == predict_proba(answer)[model_predict(answer) + 1]

\* C8 as claimed: confidence (kept in hundredths) equals 100 times the
\* probability of the predicted class.
C8_ConfidenceExact ==
    resp.status = 200 => resp.result.confidence * ProbDen = 10000 * PredictedProba

\* C8 as amended: confidence is 100 times the probability of the predicted
\* class rounded to 2 decimals (the nearest hundredth), and the label is
\* 'GDM Risk' exactly for class 1.
C8_ConfidenceRounded ==
    resp.status = 200 =>
        LET diff == resp.result.confidence * ProbDen - 10000 * PredictedProba IN
        /\ 2 * diff <= ProbDen
        /\ 2 * diff >= 0 - ProbDen
        /\ (resp.result.prediction = "GDM Risk") = (model_predict(answer) = 1)

\* C8 witness: class 0 predicted, with a probability of class 1 above 0.
C8_Witness ==
    /\ resp.status = 200
    /\ model_predict(answer) = 0
    /\ answer.k > 0
    /\ resp.result.confidence # resp.result.gdm_probability

\* C9: when process_gdm_data returns True the CSV holds all NGDM rows, then
\* all GDM rows, each group in its sheet's order, the label 0 on the NGDM
\* rows and 1 on the GDM rows.
C9_RowsAndLabels ==
    shaped.returned = "True" =>
        LET rows == shaped.output.rows
            nn == Len(workbook.NGDM.rows)
            ng == Len(workbook.GDM.rows)
        IN /\ shaped.output.exists /\ shaped.output.complete
           /\ Len(rows) = nn + ng
           /\ \A i \in 1..nn : rows[i] = [row |-> i, sheet |-> "NGDM", GDM |-> 0]
           /\ \A i \in 1..ng : rows[nn + i] = [row |-> i, sheet |-> "GDM", GDM |-> 1]

\* C9 witness: a successful run on two GDM rows and at least one NGDM row.
C9_Witness ==
    /\ shaped.returned = "True"
    /\ Len(workbook.GDM.rows) = 2
    /\ Len(workbook.NGDM.rows) >= 1

\* C10: process_gdm_data returns False for a missing file and for any
\* error, and when it returns False it has written no output file.
C10_FalseLeavesNoOutput ==
    /\ (shaped.returned # "not_run" /\ ~workbook.exists) => shaped.returned = "False"
    /\ shaped.returned = "False" => ~shaped.output.exists

\* the scaler's recorded input feature count (n_features_in_)
RecordedFeatureCount == scaler.nfeat

\* the cell of column col was standardised / was left as it was
CellScaled(col) == Get(pre.df, col) = Scaled(Get(pre.unscaled, col).n)
CellUnchanged(col) == Get(pre.df, col) = Get(pre.unscaled, col)

\* C11: a loaded scaler is applied to all 14 columns exactly when its
\* recorded input feature count is 14, and otherwise to the 11 numeric
\* columns only, the categorical columns unchanged; without a scaler the
\* aligned vector is returned as it was before the scaling step.
C11_ScalerBranchByFeatureCount ==
    Returned =>
        /\ (scaler.loaded /\ RecordedFeatureCount = Len(feature_columns)) =>
              \A col \in Range(feature_columns) : CellScaled(col)
        /\ (scaler.loaded /\ RecordedFeatureCount # Len(feature_columns)) =>
              /\ \A col \in Range(numerical_columns) : CellScaled(col)
              /\ \A col \in Range(categorical_columns) : CellUnchanged(col)
        /\ ~scaler.loaded => pre.df = pre.unscaled

\* C12: the column order of the CSV is determined by the sheets alone: two
\* successful runs on one workbook write the same columns in the same
\* order, the label GDM last.
C12_ColumnOrderDetermined ==
    (shaped.returned = "True" /\ written # NoWritten) =>
        /\ shaped.output.columns = written
        /\ written[Len(written)] = "GDM"

====
